---- MODULE Spec2Model ----
(***************************************************************************)
(* Otsu's threshold (Computer_Vision.py, function otsu).                   *)
(*                                                                         *)
(* The function is modelled statement by statement: the variables are the  *)
(* Python locals of one call, pc is the position of the call, and every    *)
(* action is a block of consecutive source lines.  The float64 values of   *)
(* the code are modelled as exact rationals [num, den] in lowest terms     *)
(* (den > 0), with one extra value NonFinite for the result of a division  *)
(* by zero (inf/nan in numpy); rounding of float64 is not modelled.        *)
(***************************************************************************)
EXTENDS Integers, Sequences, FiniteSets

\* ---------------------------------------------------------------- bounds
MaxVal    == 3      \* pixel intensities range over 0..MaxVal
MaxPixels == 4      \* an input array holds at most MaxPixels elements
MaxNdim   == 3      \* an input array has at most MaxNdim dimensions

\* ---------------------------------------------------------- float values
Abs(x) == IF x < 0 THEN -x ELSE x

RECURSIVE GCD(_, _)
GCD(a, b) == IF b = 0 THEN a ELSE GCD(b, a % b)

NonFinite == [num |-> 0, den |-> 0]

IsFinite(x) == x.den # 0

\* the rational a/b (b # 0) in lowest terms with a positive denominator
Frac(a, b) ==
    LET g == GCD(Abs(a), Abs(b))
        s == IF b < 0 THEN -1 ELSE 1
    IN  [num |-> (s * a) \div g, den |-> (s * b) \div g]

FromInt(i) == [num |-> i, den |-> 1]

Zero == FromInt(0)
One  == FromInt(1)

FAdd(x, y) ==
    IF IsFinite(x) /\ IsFinite(y)
    THEN Frac(x.num * y.den + y.num * x.den, x.den * y.den)
    ELSE NonFinite

FSub(x, y) ==
    IF IsFinite(x) /\ IsFinite(y)
    THEN Frac(x.num * y.den - y.num * x.den, x.den * y.den)
    ELSE NonFinite

FMul(x, y) ==
    IF IsFinite(x) /\ IsFinite(y)
    THEN Frac(x.num * y.num, x.den * y.den)
    ELSE NonFinite

\* numpy float division: a zero divisor gives inf/nan instead of raising
FDiv(x, y) ==
    IF IsFinite(x) /\ IsFinite(y) /\ y.num # 0
    THEN Frac(x.num * y.den, x.den * y.num)
    ELSE NonFinite

\* x > y; every comparison with a non-finite operand is taken as False
FGt(x, y) ==
    /\ IsFinite(x)
    /\ IsFinite(y)
    /\ x.num * y.den > y.num * x.den

FGe(x, y) == x = y \/ FGt(x, y)

\* ------------------------------------------------------------ the input
\* element type name |-> numpy kind ('u' unsigned, 'i' signed, 'f' float,
\* 'b' boolean)
DtypeKind ==
    [uint8 |-> "u", uint16 |-> "u", int32 |-> "i", float64 |-> "f", bool |-> "b"]

Dtypes == DOMAIN DtypeKind

RECURSIVE Prod(_)
Prod(s) == IF s = <<>> THEN 1 ELSE Head(s) * Prod(Tail(s))

Shapes ==
    {s \in UNION {[1..k -> 0..MaxPixels] : k \in 0..MaxNdim} : Prod(s) <= MaxPixels}

\* an array: element type, shape, and the elements in flattened order
Images ==
    UNION {[dtype : Dtypes, shape : {s}, data : [1..Prod(s) -> 0..MaxVal]] : s \in Shapes}

\* the 4x4 reference image: eight pixels of 10 and eight pixels of 200
ReferenceImage ==
    [dtype |-> "uint8", shape |-> <<4, 4>>,
     data |-> [i \in 1..16 |-> IF i <= 8 THEN 10 ELSE 200]]

Inputs == Images \cup {ReferenceImage}

IsUnsignedOrSigned(dtype) == DtypeKind[dtype] \in {"u", "i"}

\* np.issubdtype(dtype, np.unsignedinteger)
IsUnsigned(dtype) == DtypeKind[dtype] = "u"

\* ------------------------------------------------------------ np.unique
Range(s) == {s[i] : i \in DOMAIN s}

Min(S) == CHOOSE x \in S : \A y \in S : x <= y

RECURSIVE SortedSeq(_)
SortedSeq(S) ==
    IF S = {} THEN <<>> ELSE <<Min(S)>> \o SortedSeq(S \ {Min(S)})

Count(s, v) == Cardinality({i \in DOMAIN s : s[i] = v})

\* np.unique(a, return_counts=True): the sorted distinct elements of the
\* flattened array and the number of occurrences of each
Unique(a) ==
    LET u == SortedSeq(Range(a.data))
    IN  <<u, [i \in DOMAIN u |-> Count(a.data, u[i])]>>

\* s[:-1]
ButLast(s) == IF Len(s) = 0 THEN <<>> ELSE SubSeq(s, 1, Len(s) - 1)

\* (x * y).sum() for an integer array x and a float array y
RECURSIVE DotSumUpTo(_, _, _)
DotSumUpTo(x, y, m) ==
    IF m = 0 THEN Zero
    ELSE FAdd(DotSumUpTo(x, y, m - 1), FMul(FromInt(x[m]), y[m]))

DotSum(x, y) == DotSumUpTo(x, y, Len(x))

\* ------------------------------------------------------- Python values
None == [kind |-> "None", val |-> <<>>]

Array(s) == [kind |-> "array", val |-> s]

TypeErrorMessage(dtype) ==
    <<"Image type = ", dtype, ". Convert the image in unsigned integer!">>

\* ---------------------------------------------------------------- state
VARIABLES
    img_np,             \* the argument
    pc,                 \* position of the call
    bound,              \* names of the locals that have been assigned
    unique_intensivity, frequencies,
    p, mu_total,
    p_0_t, w_0_t, w_0_t_new, mu_0_t, mu_1_t,
    var_between, var_between_max, threshold_otsu, var_between_list,
    n, threshold,
    string,             \* the message built at line 40
    result,             \* the returned tuple, once pc = "returned"
    raised              \* the exception, once pc = "raised"

locals ==
    <<unique_intensivity, frequencies, p, mu_total, p_0_t, w_0_t, w_0_t_new,
      mu_0_t, mu_1_t, var_between, var_between_max, threshold_otsu,
      var_between_list, n, threshold, string>>

vars == <<img_np, pc, bound, locals, result, raised>>

NoException == [type |-> "", message |-> <<>>]

NoResult == <<>>

Init ==
    /\ img_np \in Inputs
    /\ pc = "line39"
    /\ bound = {}
    /\ unique_intensivity = <<>>
    /\ frequencies = <<>>
    /\ p = <<>>
    /\ mu_total = Zero
    /\ p_0_t = Zero
    /\ w_0_t = Zero
    /\ w_0_t_new = Zero
    /\ mu_0_t = Zero
    /\ mu_1_t = Zero
    /\ var_between = Zero
    /\ var_between_max = Zero
    /\ threshold_otsu = 0
    /\ var_between_list = <<>>
    /\ n = 0
    /\ threshold = 0
    /\ string = <<>>
    /\ result = NoResult
    /\ raised = NoException

\* lines 39-41: the element type is not an unsigned integer kind
RaiseTypeError ==
    /\ pc = "line39"
    /\ ~IsUnsigned(img_np.dtype)
    /\ string' = TypeErrorMessage(img_np.dtype)
    /\ bound' = bound \cup {"string"}
    /\ raised' = [type |-> "TypeError", message |-> string']
    /\ pc' = "raised"
    /\ UNCHANGED <<img_np, unique_intensivity, frequencies, p, mu_total, p_0_t,
                   w_0_t, w_0_t_new, mu_0_t, mu_1_t, var_between,
                   var_between_max, threshold_otsu, var_between_list, n,
                   threshold, result>>

\* lines 39, 42: the type check passes, the histogram is extracted
ExtractHistogram ==
    /\ pc = "line39"
    /\ IsUnsigned(img_np.dtype)
    /\ unique_intensivity' = Unique(img_np)[1]
    /\ frequencies' = Unique(img_np)[2]
    /\ bound' = bound \cup {"unique_intensivity", "frequencies"}
    /\ pc' = "line44"
    /\ UNCHANGED <<img_np, p, mu_total, p_0_t, w_0_t, w_0_t_new, mu_0_t, mu_1_t,
                   var_between, var_between_max, threshold_otsu,
                   var_between_list, n, threshold, string, result, raised>>

IsPairOfIntensities(u) == Len(u) = 2

\* line 44: unique_intensivity.shape[0] == 1
IsSingleIntensity(u) == Len(u) = 1

HasAtLeastTwoEntries(shape) == Len(shape) >= 2

\* line 49: the shape unpacks into exactly the two names N, M
UnpacksAsPair(shape) == Len(shape) = 2

\* lines 44-46: exactly one unique intensity
ReturnSingleIntensity ==
    /\ pc = "line44"
    /\ IsSingleIntensity(unique_intensivity)
    /\ threshold_otsu' = unique_intensivity[1]
    /\ bound' = bound \cup {"threshold_otsu"}
    /\ result' = <<threshold_otsu', None, None, None>>
    /\ pc' = "returned"
    /\ UNCHANGED <<img_np, unique_intensivity, frequencies, p, mu_total, p_0_t,
                   w_0_t, w_0_t_new, mu_0_t, mu_1_t, var_between,
                   var_between_max, var_between_list, n, threshold, string, raised>>

\* line 49: N, M = img_np.shape fails unless the shape has two entries
RaiseShapeError ==
    /\ pc = "line44"
    /\ ~IsSingleIntensity(unique_intensivity)
    /\ ~UnpacksAsPair(img_np.shape)
    /\ raised' = [type |-> "ValueError", message |-> <<>>]
    /\ pc' = "raised"
    /\ UNCHANGED <<img_np, bound, locals, result>>

\* lines 49-60: probabilities, global mean, initial aggregates
Prepare ==
    /\ pc = "line44"
    /\ ~IsSingleIntensity(unique_intensivity)
    /\ UnpacksAsPair(img_np.shape)
    /\ LET NM == img_np.shape[1] * img_np.shape[2]
       IN  p' = [i \in DOMAIN frequencies |-> FDiv(FromInt(frequencies[i]), FromInt(NM))]
    /\ mu_total' = DotSum(unique_intensivity, p')
    /\ p_0_t' = Zero
    /\ w_0_t' = Zero
    /\ w_0_t_new' = Zero
    /\ mu_0_t' = Zero
    /\ var_between_max' = Zero
    /\ threshold_otsu' = 0
    /\ var_between_list' = <<>>
    /\ bound' = bound \cup {"N", "M", "p", "mu_total", "p_0_t", "w_0_t", "w_0_t_new",
                            "mu_0_t", "var_between_max", "threshold_otsu",
                            "var_between_list"}
    /\ pc' = "line62"
    /\ UNCHANGED <<img_np, unique_intensivity, frequencies, mu_1_t, var_between,
                   n, threshold, string, result, raised>>

AllIntensities == unique_intensivity

CandidatesButFirst ==
    IF Len(unique_intensivity) = 0 THEN <<>> ELSE Tail(unique_intensivity)

\* the sequence the for loop of line 62 iterates over
Candidates == ButLast(unique_intensivity)

\* the index the enumerate of line 62 yields next
NextIndex == IF "n" \in bound THEN n + 1 ELSE 0

ImprovesOrTies(v, vmax) == FGe(v, vmax)

ImprovesReversed(v, vmax) == FGt(vmax, v)

\* line 70: strict improvement of the running maximum
Improves(v, vmax) == FGt(v, vmax)

Mu0UpdateUnweighted(mu0, w0, t, pt, w0new) ==
    FDiv(FAdd(mu0, FMul(FromInt(t), pt)), w0new)

\* line 65: weighted incremental mean of class 0
Mu0Update(mu0, w0, t, pt, w0new) ==
    FDiv(FAdd(FMul(mu0, w0), FMul(FromInt(t), pt)), w0new)

\* line 67: mean of class 1
Mu1(mutotal, w0, mu0) ==
    FDiv(FSub(mutotal, FMul(w0, mu0)), FSub(One, w0))

VarBetweenUnsquared(w0, mu0, mu1) ==
    FMul(FMul(w0, FSub(One, w0)), FSub(mu1, mu0))

\* line 68: inter-class variance
VarBetween(w0, mu0, mu1) ==
    FMul(FMul(w0, FSub(One, w0)), FMul(FSub(mu0, mu1), FSub(mu0, mu1)))

\* lines 62-72: one iteration of the scan
LoopBody ==
    /\ pc = "line62"
    /\ NextIndex < Len(Candidates)
    /\ n' = NextIndex
    /\ threshold' = Candidates[n' + 1]
    /\ p_0_t' = p[n' + 1]
    /\ w_0_t_new' = FAdd(w_0_t, p_0_t')
    /\ mu_0_t' = Mu0Update(mu_0_t, w_0_t, threshold', p_0_t', w_0_t_new')
    /\ w_0_t' = w_0_t_new'
    /\ mu_1_t' = Mu1(mu_total, w_0_t', mu_0_t')
    /\ var_between' = VarBetween(w_0_t', mu_0_t', mu_1_t')
    /\ var_between_list' = Append(var_between_list, var_between')
    /\ IF Improves(var_between', var_between_max)
       THEN /\ var_between_max' = var_between'
            /\ threshold_otsu' = threshold'
       ELSE UNCHANGED <<var_between_max, threshold_otsu>>
    /\ bound' = bound \cup {"n", "threshold", "mu_1_t", "var_between"}
    /\ UNCHANGED <<img_np, pc, unique_intensivity, frequencies, p, mu_total,
                   string, result, raised>>

\* lines 73-75: the scan is exhausted; trailing zero, conversion, return
ReturnGeneral ==
    /\ pc = "line62"
    /\ NextIndex >= Len(Candidates)
    /\ var_between_list' = Append(var_between_list, Zero)
    /\ var_between' = var_between_list'
    /\ bound' = bound \cup {"var_between"}
    /\ result' = <<threshold_otsu, Array(unique_intensivity), Array(frequencies),
                   Array(var_between')>>
    /\ pc' = "returned"
    /\ UNCHANGED <<img_np, unique_intensivity, frequencies, p, mu_total, p_0_t,
                   w_0_t, w_0_t_new, mu_0_t, mu_1_t, var_between_max,
                   threshold_otsu, n, threshold, string, raised>>

Next ==
    \/ RaiseTypeError
    \/ ExtractHistogram
    \/ ReturnSingleIntensity
    \/ RaiseShapeError
    \/ Prepare
    \/ LoopBody
    \/ ReturnGeneral

Spec == Init /\ [][Next]_vars

\* ------------------------------------------------- simple output mode
\* The terse variant of the function: the same scan, returning only the
\* threshold (steps 1-6 of the algorithm).
RECURSIVE SimpleScan(_, _, _, _, _, _, _, _)
SimpleScan(I, P, muT, idx, w0, mu0, best, bestT) ==
    IF idx > Len(I) - 1 THEN bestT
    ELSE LET w0n  == FAdd(w0, P[idx])
             mu0n == FDiv(FAdd(FMul(mu0, w0), FMul(FromInt(I[idx]), P[idx])), w0n)
             mu1  == FDiv(FSub(muT, FMul(w0n, mu0n)), FSub(One, w0n))
             v    == FMul(FMul(w0n, FSub(One, w0n)),
                          FMul(FSub(mu0n, mu1), FSub(mu0n, mu1)))
             up   == FGt(v, best)
         IN  SimpleScan(I, P, muT, idx + 1, w0n, mu0n,
                        IF up THEN v ELSE best, IF up THEN I[idx] ELSE bestT)

SimpleOtsu(img) ==
    LET I == Unique(img)[1]
        C == Unique(img)[2]
        T == Prod(img.shape)
        P == [j \in DOMAIN C |-> FDiv(FromInt(C[j]), FromInt(T))]
    IN  IF Len(I) = 1 THEN I[1]
        ELSE SimpleScan(I, P, DotSum(I, P), 1, Zero, Zero, Zero, 0)

\* ------------------------------------------------------------- properties
\* The histogram of the input and the class statistics of a split, written
\* from their definitions (no running aggregates).
HistI == Unique(img_np)[1]
HistC == Unique(img_np)[2]
K     == Len(HistI)

\* p_j = C_j / (rows * columns)
Prob(j) == FDiv(FromInt(HistC[j]), FromInt(Prod(img_np.shape)))

RECURSIVE SumP(_, _)
SumP(lo, hi) == IF lo > hi THEN Zero ELSE FAdd(Prob(hi), SumP(lo, hi - 1))

RECURSIVE SumIP(_, _)
SumIP(lo, hi) ==
    IF lo > hi THEN Zero
    ELSE FAdd(FMul(FromInt(HistI[hi]), Prob(hi)), SumIP(lo, hi - 1))

\* the split at the m-th unique intensity (1-based): class 0 is 1..m
DefW0(m)  == SumP(1, m)
DefMu0(m) == FDiv(SumIP(1, m), SumP(1, m))
DefMu1(m) == FDiv(SumIP(m + 1, K), SumP(m + 1, K))
DefVar(m) ==
    LET d == FSub(DefMu0(m), DefMu1(m))
    IN  FMul(FMul(DefW0(m), FSub(One, DefW0(m))), FMul(d, d))

\* the element type of the input is an unsigned integer kind
UnsignedInput == DtypeKind[img_np.dtype] = "u"

GeneralInput ==
    /\ UnsignedInput
    /\ Len(img_np.shape) = 2
    /\ K >= 2

Returned == pc = "returned"

SingleIntensityInput ==
    /\ UnsignedInput
    /\ K = 1

\* C3: an image of any shape whose pixels all have intensity v returns
\* (v, None, None, None) without entering the scan: no loop variable, no
\* variance and no variance list is ever assigned.
C3_SingleIntensity ==
    SingleIntensityInput =>
        /\ pc \in {"line39", "line44", "returned"}
        /\ bound \subseteq {"unique_intensivity", "frequencies", "threshold_otsu"}
        /\ Returned => result = <<img_np.data[1], None, None, None>>

\* a constant image with three dimensions and several pixels has returned
C3_Witness ==
    /\ SingleIntensityInput
    /\ Returned
    /\ Len(img_np.shape) = 3
    /\ Prod(img_np.shape) >= 2
    /\ result[1] = img_np.data[1]

C5_InvalidPixelType ==
    ~UnsignedInput =>
        /\ pc \in {"line39", "raised"}
        /\ bound \subseteq {"string"}
        /\ result = NoResult
        /\ pc = "raised" =>
              /\ raised.type = "TypeError"
              /\ \E i \in DOMAIN raised.message : raised.message[i] = img_np.dtype

C5_Witness ==
    /\ pc = "raised"
    /\ DtypeKind[img_np.dtype] = "i"
    /\ Prod(img_np.shape) >= 2
    /\ raised.type = "TypeError"

\* C6: in the general case the variance curve has the length k of the
\* unique-intensity sequence, entry n (0 <= n <= k-2) is the inter-class
\* variance of candidate I[n], and the last entry is 0.
C6_VarianceCurve ==
    (Returned /\ K >= 2) =>
        /\ result[2] = Array(HistI)
        /\ result[4].kind = "array"
        /\ Len(result[4].val) = K
        /\ \A m \in 1..(K - 1) : result[4].val[m] = DefVar(m)
        /\ result[4].val[K] = Zero

C6_Witness ==
    /\ Returned
    /\ K >= 3
    /\ Len(result[4].val) = K
    /\ result[4].val[1] # result[4].val[2]

C8_MonotonicMass ==
    [][(pc = "line62" /\ pc' = "line62") =>
          /\ FGe(w_0_t', w_0_t)
          /\ FGt(w_0_t_new', Zero)
          /\ FGt(One, w_0_t')
          /\ FSub(One, w_0_t') # Zero
          /\ IsFinite(mu_0_t')
          /\ IsFinite(mu_1_t')]_vars

\* the last candidate of a scan over three or more candidates was evaluated
C8_Witness ==
    /\ pc = "line62"
    /\ "n" \in bound
    /\ n >= 2
    /\ n = Len(Candidates) - 1
    /\ FGt(One, w_0_t)

\* C9: after the update for candidate index n the running aggregates equal
\* their definitions: w0 = sum of p_j (j <= n), mu0 = mean of class 0,
\* mu1 = mean of class 1.
C9_IncrementalEqualsDefinition ==
    (pc = "line62" /\ "n" \in bound) =>
        /\ w_0_t = DefW0(n + 1)
        /\ mu_0_t = DefMu0(n + 1)
        /\ mu_1_t = DefMu1(n + 1)

\* a second or later iteration, where class 0 holds several intensities
C9_Witness ==
    /\ pc = "line62"
    /\ "n" \in bound
    /\ n >= 1
    /\ mu_0_t # FromInt(threshold)
    /\ mu_0_t = DefMu0(n + 1)

\* an unsigned-integer input that is zero-size or not two-dimensional
MalformedInput ==
    /\ UnsignedInput
    /\ (Prod(img_np.shape) = 0 \/ Len(img_np.shape) # 2)

\* C10 as stated: a zero-size or non-2D input never returns a result.
C10_NeverReturns ==
    MalformedInput => ~Returned

\* C10 amended: a non-2D input fails with the shape error of line 49
\* unless it has exactly one unique intensity v, in which case the call
\* returns (v, None, None, None); a zero-size 2D input returns threshold 0
\* with empty unique-intensity and frequency arrays and the curve [0].
C10_MalformedInput ==
    MalformedInput =>
            IF K = 1
            THEN /\ pc # "raised"
                 /\ Returned => result = <<HistI[1], None, None, None>>
            ELSE IF Len(img_np.shape) = 2
            THEN /\ pc # "raised"
                 /\ Returned => result = <<0, Array(<<>>), Array(<<>>), Array(<<Zero>>)>>
            ELSE /\ ~Returned
                 /\ pc = "raised" => raised.type = "ValueError"

\* a one-dimensional input with several intensities has failed
C10_Witness ==
    /\ MalformedInput
    /\ Len(img_np.shape) = 1
    /\ K >= 2
    /\ pc = "raised"
    /\ raised.type = "ValueError"

====
